---- MODULE Spec2Model ----
(***************************************************************************)
(* slicenator: mul_slice and dot_slice (src/lib.rs).                       *)
(*                                                                         *)
(* Both functions are modelled statement by statement: the choice of len,  *)
(* the creation of v, one action per loop iteration (the two bounds-       *)
(* checked reads a[i], b[i], the multiplication in T, the push), and, for  *)
(* dot_slice, one action per item of v.iter().sum().  T is a signed        *)
(* integer of `bits` bits whose arithmetic wraps, saturates or traps       *)
(* (`arith`): a primitive integer traps in a build with overflow checks    *)
(* and wraps in one without, Wrapping<T> wraps and Saturating<T>           *)
(* saturates.  The caller owns two vectors x and y and passes borrowed     *)
(* slices of them; a and b hold which vector each parameter borrows.       *)
(***************************************************************************)
EXTENDS Integers, Sequences, FiniteSets

VARIABLES x, y, bits, arith, pc, form, a, b, len, i, v, acc, j, res, out

vars == <<x, y, bits, arith, pc, form, a, b, len, i, v, acc, j, res, out>>

(* ------------------------------ bounds -------------------------------- *)

\* Longest input vector of the single-call specification.
MaxLen == 3

\* Longest input vector of the repeated-call specification.
HarnessLen == 2

\* Width of the small integer type the inputs are drawn from (i8).
Bits == 8

\* Width of the integer type of the unit tests (`let q: i32`).
W32 == 32

(* --------------------------- T's arithmetic --------------------------- *)

\* 2^(w-1) - 1, written so that no intermediate value exceeds it.
TMax(w) == (2 ^ (w - 2) - 1) * 2 + 1

TMin(w) == 0 - TMax(w) - 1

InRange(n, w) == TMin(w) <= n /\ n <= TMax(w)

\* Two's complement wrap-around of the exact value n.  Evaluated only for
\* a value out of range.
Wrap(n, w) == IF InRange(n, w) THEN n
              ELSE ((n - TMin(w)) % (2 * (TMax(w) + 1))) + TMin(w)

Sat(n, w) == IF n > TMax(w) THEN TMax(w) ELSE IF n < TMin(w) THEN TMin(w) ELSE n

\* The outcome of an operation of T whose exact result is n.
Arith(n, w, m) ==
    IF InRange(n, w) THEN [ok |-> TRUE, val |-> n]
    ELSE IF m = "wrap" THEN [ok |-> TRUE, val |-> Wrap(n, w)]
    ELSE IF m = "sat" THEN [ok |-> TRUE, val |-> Sat(n, w)]
    ELSE [ok |-> FALSE, val |-> 0]

MulAsAdd(p, q) == Arith(p + q, bits, arith)

\* a[i] * b[i] in T.
Mul(p, q) == Arith(p * q, bits, arith)

\* One step of the integer Sum: acc + item in T.
Add(p, q) == Arith(p + q, bits, arith)

\* The additive identity the integer Sum starts from.
SumZero == 0

(* ------------------------------ values -------------------------------- *)

Modes == {"wrap", "sat", "trap"}

Vals == {-2, 1, TMax(Bits)}

HarnessVals == {-1, TMax(Bits)}

SeqsUpTo(S, n) == UNION {[1..k -> S] : k \in 0..n}

\* The vectors of the unit tests.
TestT == <<0, 2, 4, 6, 8>>

TestU == <<0, 4, 8, 12, 16>>

TestUShort == <<0, 4, 8>>

\* A second operand that goes on after the tested prefix.
TestULong == <<0, 4, 8, 12, 16, 20>>

Forms == {"mul_xy", "mul_yx", "dot_xy", "dot_yx"}

NoRes == [st |-> "none", vec |-> <<>>, num |-> 0, err |-> ""]

VecRes(s) == [st |-> "ok", vec |-> s, num |-> 0, err |-> ""]

NumRes(n) == [st |-> "ok", vec |-> <<>>, num |-> n, err |-> ""]

PanicRes(e) == [st |-> "panic", vec |-> <<>>, num |-> 0, err |-> e]

\* The vector a borrowed slice refers to.
Deref(r) == IF r = "x" THEN x ELSE y

(* --------------------------- the two functions ------------------------ *)

ShorterLenFirst(p, q) == Len(p)

ShorterLenMismatchZero(p, q) == IF Len(p) = Len(q) THEN Len(p) ELSE 0

ShorterLenElseOffByOne(p, q) == IF Len(p) <= Len(q) THEN Len(p) ELSE Len(q) - 1

LongerLen(p, q) == IF Len(p) <= Len(q) THEN Len(q) ELSE Len(p)

\* let len = if a.len() <= b.len() { a.len() } else { b.len() };
ShorterLen(p, q) == IF Len(p) <= Len(q) THEN Len(p) ELSE Len(q)

\* The frame of a call is gone once it returns or unwinds.
DropFrame ==
    /\ a' = "x" /\ b' = "y"
    /\ len' = 0 /\ i' = 0 /\ v' = <<>> /\ acc' = 0 /\ j' = 0

Panic(e) ==
    /\ pc' = "panicked"
    /\ res' = PanicRes(e)
    /\ DropFrame

\* Entry of mul_slice(ra, rb): len is chosen and v is created empty.
EnterMul(f, ra, rb) ==
    /\ pc = "idle"
    /\ pc' = "mul_loop"
    /\ form' = f
    /\ a' = ra /\ b' = rb
    /\ len' = ShorterLen(Deref(ra), Deref(rb))
    /\ v' = <<>> /\ i' = 0
    /\ UNCHANGED <<x, y, bits, arith, acc, j, res, out>>

\* Entry of dot_slice(ra, rb).
EnterDot(f, ra, rb) ==
    /\ pc = "idle"
    /\ pc' = "dot_loop"
    /\ form' = f
    /\ a' = ra /\ b' = rb
    /\ len' = ShorterLen(Deref(ra), Deref(rb))
    /\ v' = <<>> /\ i' = 0
    /\ UNCHANGED <<x, y, bits, arith, acc, j, res, out>>

\* mul_slice(&x, &y)
CallMul == EnterMul("mul_xy", "x", "y")

\* dot_slice(&x, &y)
CallDot == EnterDot("dot_xy", "x", "y")

\* mul_slice(&y, &x)
CallMulSwapped == EnterMul("mul_yx", "y", "x")

\* dot_slice(&y, &x)
CallDotSwapped == EnterDot("dot_yx", "y", "x")

\* A loop body that stores the product into the first operand as well.
MulLoopInPlace ==
    /\ pc = "mul_loop"
    /\ i < len
    /\ IF i >= Len(Deref(a)) \/ i >= Len(Deref(b))
       THEN Panic("index") /\ UNCHANGED <<x, y>>
       ELSE LET r == Mul(Deref(a)[i + 1], Deref(b)[i + 1]) IN
            IF r.ok
            THEN /\ v' = Append(v, r.val)
                 /\ i' = i + 1
                 /\ x' = IF a = "x" THEN [x EXCEPT ![i + 1] = r.val] ELSE x
                 /\ y' = IF a = "y" THEN [y EXCEPT ![i + 1] = r.val] ELSE y
                 /\ UNCHANGED <<pc, a, b, len, acc, j, res>>
            ELSE Panic("overflow") /\ UNCHANGED <<x, y>>
    /\ UNCHANGED <<bits, arith, form, out>>

\* A loop body that puts each product in front of the earlier ones.
MulLoopPrepend ==
    /\ pc = "mul_loop"
    /\ i < len
    /\ IF i >= Len(Deref(a)) \/ i >= Len(Deref(b))
       THEN Panic("index")
       ELSE LET r == Mul(Deref(a)[i + 1], Deref(b)[i + 1]) IN
            IF r.ok
            THEN /\ v' = <<r.val>> \o v
                 /\ i' = i + 1
                 /\ UNCHANGED <<pc, a, b, len, acc, j, res>>
            ELSE Panic("overflow")
    /\ UNCHANGED <<x, y, bits, arith, form, out>>

\* for i in 0..len { v.push(a[i] * b[i]); }   (mul_slice)
\* a[i] and b[i] are bounds-checked reads; index i is element i + 1 here.
MulLoop ==
    /\ pc = "mul_loop"
    /\ i < len
    /\ IF i >= Len(Deref(a)) \/ i >= Len(Deref(b))
       THEN Panic("index")
       ELSE LET r == Mul(Deref(a)[i + 1], Deref(b)[i + 1]) IN
            IF r.ok
            THEN /\ v' = Append(v, r.val)
                 /\ i' = i + 1
                 /\ UNCHANGED <<pc, a, b, len, acc, j, res>>
            ELSE Panic("overflow")
    /\ UNCHANGED <<x, y, bits, arith, form, out>>

\* The loop is over: mul_slice returns v.
MulReturn ==
    /\ pc = "mul_loop"
    /\ i >= len
    /\ pc' = "done"
    /\ res' = VecRes(v)
    /\ DropFrame
    /\ UNCHANGED <<x, y, bits, arith, form, out>>

\* A loop body that multiplies a[i] by itself.
DotLoopSquares ==
    /\ pc = "dot_loop"
    /\ i < len
    /\ IF i >= Len(Deref(a)) \/ i >= Len(Deref(b))
       THEN Panic("index")
       ELSE LET r == Mul(Deref(a)[i + 1], Deref(a)[i + 1]) IN
            IF r.ok
            THEN /\ v' = Append(v, r.val)
                 /\ i' = i + 1
                 /\ UNCHANGED <<pc, a, b, len, acc, j, res>>
            ELSE Panic("overflow")
    /\ UNCHANGED <<x, y, bits, arith, form, out>>

\* for i in 0..len { v.push(a[i] * b[i]); }   (dot_slice)
DotLoop ==
    /\ pc = "dot_loop"
    /\ i < len
    /\ IF i >= Len(Deref(a)) \/ i >= Len(Deref(b))
       THEN Panic("index")
       ELSE LET r == Mul(Deref(a)[i + 1], Deref(b)[i + 1]) IN
            IF r.ok
            THEN /\ v' = Append(v, r.val)
                 /\ i' = i + 1
                 /\ UNCHANGED <<pc, a, b, len, acc, j, res>>
            ELSE Panic("overflow")
    /\ UNCHANGED <<x, y, bits, arith, form, out>>

\* A sum that starts from the multiplicative identity.
DotSumBeginFromOne ==
    /\ pc = "dot_loop"
    /\ i >= len
    /\ pc' = "dot_sum"
    /\ acc' = SumZero + 1
    /\ j' = 0
    /\ UNCHANGED <<x, y, bits, arith, form, a, b, len, i, v, res, out>>

\* The loop is over: v.iter().sum() starts from the additive identity.
DotSumBegin ==
    /\ pc = "dot_loop"
    /\ i >= len
    /\ pc' = "dot_sum"
    /\ acc' = SumZero
    /\ j' = 0
    /\ UNCHANGED <<x, y, bits, arith, form, a, b, len, i, v, res, out>>

\* A sum that takes the items of v from the back.
DotSumStepFromBack ==
    /\ pc = "dot_sum"
    /\ j < Len(v)
    /\ LET r == Add(acc, v[Len(v) - j]) IN
       IF r.ok
       THEN /\ acc' = r.val
            /\ j' = j + 1
            /\ UNCHANGED <<pc, a, b, len, i, v, res>>
       ELSE Panic("overflow")
    /\ UNCHANGED <<x, y, bits, arith, form, out>>

\* v.iter().sum(): the next item of the iterator is added to the accumulator.
DotSumStep ==
    /\ pc = "dot_sum"
    /\ j < Len(v)
    /\ LET r == Add(acc, v[j + 1]) IN
       IF r.ok
       THEN /\ acc' = r.val
            /\ j' = j + 1
            /\ UNCHANGED <<pc, a, b, len, i, v, res>>
       ELSE Panic("overflow")
    /\ UNCHANGED <<x, y, bits, arith, form, out>>

\* The iterator is exhausted: dot_slice returns the accumulator.
DotReturn ==
    /\ pc = "dot_sum"
    /\ j >= Len(v)
    /\ pc' = "done"
    /\ res' = NumRes(acc)
    /\ DropFrame
    /\ UNCHANGED <<x, y, bits, arith, form, out>>

\* The caller keeps what the call gave (`let q = ...`, or the caught panic
\* of a failed test) and goes on to its next call.
Again ==
    /\ pc \in {"done", "panicked"}
    /\ pc' = "idle"
    /\ out' = [out EXCEPT ![form] = res]
    /\ form' = ""
    /\ res' = NoRes
    /\ UNCHANGED <<x, y, bits, arith, a, b, len, i, v, acc, j>>

(* --------------------------- specifications --------------------------- *)

Idle ==
    /\ pc = "idle" /\ form = ""
    /\ a = "x" /\ b = "y"
    /\ len = 0 /\ i = 0 /\ v = <<>> /\ acc = 0 /\ j = 0
    /\ res = NoRes
    /\ out = [f \in Forms |-> NoRes]

\* One call on any two vectors of the small type, or on the vectors of the
\* unit tests in i32.
Init ==
    /\ \/ /\ bits = Bits
          /\ x \in SeqsUpTo(Vals, MaxLen)
          /\ y \in SeqsUpTo(Vals, MaxLen)
       \/ /\ bits = W32
          /\ x = TestT
          /\ y \in {TestU, TestUShort, TestULong}
    /\ arith \in Modes
    /\ Idle

Next ==
    \/ CallMul
    \/ MulLoop
    \/ MulReturn
    \/ CallDot
    \/ DotLoop
    \/ DotSumBegin
    \/ DotSumStep
    \/ DotReturn

Spec == Init /\ [][Next]_vars

\* A caller that goes on calling both functions, with the operands in either
\* order, on the same two vectors.
InitCalls ==
    /\ bits = Bits
    /\ x \in SeqsUpTo(HarnessVals, HarnessLen)
    /\ y \in SeqsUpTo(HarnessVals, HarnessLen)
    /\ arith \in Modes
    /\ Idle

NextCalls ==
    \/ CallMul
    \/ CallMulSwapped
    \/ MulLoop
    \/ MulReturn
    \/ CallDot
    \/ CallDotSwapped
    \/ DotLoop
    \/ DotSumBegin
    \/ DotSumStep
    \/ DotReturn
    \/ Again

SpecCalls == InitCalls /\ [][NextCalls]_vars

(* ------------------------- checked properties ------------------------- *)

IsMul(f) == f \in {"mul_xy", "mul_yx"}

IsDot(f) == f \in {"dot_xy", "dot_yx"}

\* The operands of a call of form f, and the form with the operands swapped.
ArgA(f) == IF f \in {"mul_xy", "dot_xy"} THEN x ELSE y

ArgB(f) == IF f \in {"mul_xy", "dot_xy"} THEN y ELSE x

Swapped(f) ==
    IF f = "mul_xy" THEN "mul_yx"
    ELSE IF f = "mul_yx" THEN "mul_xy"
    ELSE IF f = "dot_xy" THEN "dot_yx"
    ELSE "dot_xy"

\* The multiply call on the operands of a dot call.
MulOf(f) == IF f = "dot_xy" THEN "mul_xy" ELSE "mul_yx"

Terminal == pc \in {"done", "panicked"}

\* min(len(p), len(q)): the largest n that is a length of a prefix of both.
MinLen(p, q) ==
    CHOOSE n \in 0..(Len(p) + Len(q)) :
        /\ n <= Len(p) /\ n <= Len(q)
        /\ (n = Len(p) \/ n = Len(q))

\* The exact (unbounded) product at position k and the exact sum of the
\* first k products.
ExactProd(p, q, k) == p[k] * q[k]

RECURSIVE ExactPartial(_, _, _)
ExactPartial(p, q, k) ==
    IF k = 0 THEN 0 ELSE ExactPartial(p, q, k - 1) + ExactProd(p, q, k)

\* p[k] * q[k] as T yields it when it does not trap: the exact product, the
\* nearer end of the range when saturating, and otherwise the value of the
\* range congruent to the product modulo 2^bits.
TProd(p, q, k) ==
    IF InRange(ExactProd(p, q, k), bits) THEN ExactProd(p, q, k)
    ELSE IF arith = "sat"
         THEN (IF ExactProd(p, q, k) > 0 THEN TMax(bits) ELSE TMin(bits))
         ELSE LET m == ExactProd(p, q, k) % (TMax(bits) - TMin(bits) + 1) IN
              IF m > TMax(bits) THEN m - (TMax(bits) - TMin(bits) + 1) ELSE m

\* (((0 + s[1]) + s[2]) + ...) + s[n] in T: the fold of s without its last
\* item, then the last item.
RECURSIVE FoldLeft(_)
FoldLeft(s) ==
    IF s = <<>> THEN [ok |-> TRUE, val |-> 0]
    ELSE LET r == FoldLeft(SubSeq(s, 1, Len(s) - 1)) IN
         IF r.ok THEN Arith(r.val + s[Len(s)], bits, arith) ELSE r

FoldRes(s) ==
    IF FoldLeft(s).ok THEN NumRes(FoldLeft(s).val) ELSE PanicRes("overflow")

\* C1: the sequence mul_slice returns has length min(len(a), len(b)).
C1_LengthIsMin ==
    (pc = "done" /\ IsMul(form)) =>
        Len(res.vec) = MinLen(ArgA(form), ArgB(form))

C1_Witness ==
    /\ pc = "done" /\ form = "mul_xy"
    /\ Len(x) = 3 /\ Len(y) = 1
    /\ Len(res.vec) = 1

\* C2: element i of the sequence mul_slice returns is a[i] * b[i], for
\* every i below min(len(a), len(b)), in the order of the indices.
C2_ElementsAreProducts ==
    (pc = "done" /\ IsMul(form)) =>
        \A k \in 1..MinLen(ArgA(form), ArgB(form)) :
            /\ k <= Len(res.vec)
            /\ res.vec[k] = TProd(ArgA(form), ArgB(form), k)

C2_Witness ==
    /\ pc = "done" /\ form = "mul_xy"
    /\ Len(res.vec) = 2 /\ Len(x) = 2 /\ Len(y) = 3
    /\ res.vec[1] = 1 /\ res.vec[2] = 4

\* C3: dot_slice builds the sequence of products mul_slice returns on the
\* same operands and returns the sum of that sequence (it fails where
\* mul_slice fails or the sum fails).
C3_DotIsSumOfMul ==
    IsDot(form) =>
        /\ (pc = "dot_sum" /\ out[MulOf(form)].st = "ok") =>
               v = out[MulOf(form)].vec
        /\ (Terminal /\ out[MulOf(form)].st = "ok") =>
               res = FoldRes(out[MulOf(form)].vec)
        /\ (Terminal /\ out[MulOf(form)].st = "panic") =>
               res = out[MulOf(form)]

C3_Witness ==
    /\ pc = "done" /\ form = "dot_xy"
    /\ out["mul_xy"].st = "ok"
    /\ Len(out["mul_xy"].vec) = 2
    /\ out["mul_xy"].vec[1] # out["mul_xy"].vec[2]
    /\ res.num = out["mul_xy"].vec[1] + out["mul_xy"].vec[2]
    /\ res.num # 0

\* C4: with an empty operand mul_slice returns the empty sequence and
\* dot_slice returns 0, whatever the other operand holds.
C4_EmptyOperand ==
    (Len(x) = 0 \/ Len(y) = 0) =>
        /\ pc # "panicked"
        /\ (pc = "done" /\ IsMul(form)) => res = VecRes(<<>>)
        /\ (pc = "done" /\ IsDot(form)) => res = NumRes(0)

C4_Witness ==
    /\ pc = "done" /\ form = "dot_xy"
    /\ x = <<>> /\ Len(y) >= 2
    /\ res.num = 0

\* C5: every index the loops read is below len(a) and below len(b), so it
\* is below min(len(a), len(b)), and no read is ever out of bounds.
C5_ReadsInBounds ==
    /\ (pc \in {"mul_loop", "dot_loop"} /\ i < len) =>
           /\ i < Len(Deref(a)) /\ i < Len(Deref(b))
           /\ i < MinLen(Deref(a), Deref(b))
    /\ res.err # "index"

C5_Witness ==
    /\ pc = "dot_loop"
    /\ Len(x) = 3 /\ Len(y) = 2
    /\ i = 1 /\ i < len /\ Len(v) = 1

\* C6: on the vectors of the documentation, [0,2,4,6,8] with a second
\* operand beginning [0,4,8,12,16], mul_slice returns [0,8,32,72,128] and
\* dot_slice 240; with the second operand [0,4,8] they return [0,8,32]
\* and 40.
C6_DocumentedScenarios ==
    (Terminal /\ bits = W32 /\ x = <<0, 2, 4, 6, 8>>) =>
        /\ (Len(y) >= 5 /\ SubSeq(y, 1, 5) = <<0, 4, 8, 12, 16>>) =>
               /\ IsMul(form) => res = VecRes(<<0, 8, 32, 72, 128>>)
               /\ IsDot(form) => res = NumRes(240)
        /\ (y = <<0, 4, 8>>) =>
               /\ IsMul(form) => res = VecRes(<<0, 8, 32>>)
               /\ IsDot(form) => res = NumRes(40)

C6_Witness ==
    /\ pc = "done" /\ form = "dot_xy"
    /\ x = <<0, 2, 4, 6, 8>> /\ y = <<0, 4, 8, 12, 16, 20>>
    /\ res.num = 240

\* Every product and every left-to-right partial sum of the products lies
\* in T's range.
AllFit(p, q) ==
    \A k \in 1..MinLen(p, q) :
        /\ InRange(ExactProd(p, q, k), bits)
        /\ InRange(ExactPartial(p, q, k), bits)

\* C7: when every product and every partial sum lies in T's range, both
\* calls return the exact result; a call fails only by overflow, and only
\* when one of those products or partial sums leaves the range.
C7_OnlyOverflowFails ==
    /\ (Terminal /\ AllFit(ArgA(form), ArgB(form))) =>
           /\ pc = "done"
           /\ IsMul(form) =>
                  /\ Len(res.vec) = MinLen(ArgA(form), ArgB(form))
                  /\ \A k \in 1..Len(res.vec) :
                         res.vec[k] = ExactProd(ArgA(form), ArgB(form), k)
           /\ IsDot(form) =>
                  res.num = ExactPartial(ArgA(form), ArgB(form),
                                         MinLen(ArgA(form), ArgB(form)))
    /\ pc = "panicked" =>
           /\ res.err = "overflow"
           /\ ~AllFit(ArgA(form), ArgB(form))

C7_Witness ==
    /\ pc = "panicked" /\ form = "dot_xy"
    /\ res.err = "overflow"
    /\ Len(x) = 2 /\ Len(y) = 2
    /\ \A k \in 1..2 : InRange(ExactProd(x, y, k), bits)
    /\ ~InRange(ExactPartial(x, y, 2), bits)

\* C8: no call changes its operands, and a call on the same operands gives
\* what the earlier call on them gave, whatever was called in between.
C8_NoSideEffects ==
    /\ []((Terminal /\ out[form].st # "none") => res = out[form])
    /\ [][x' = x /\ y' = y]_vars

C8_Witness ==
    /\ pc = "done" /\ form = "mul_xy"
    /\ out["mul_xy"].st = "ok"
    /\ out["dot_yx"].st # "none"
    /\ out["mul_yx"].st # "none"
    /\ Len(res.vec) = 2

\* C9: dot_slice first computes all the products in increasing index order
\* and then adds them in that order starting from 0, so what it gives is
\* what the left fold (((0 + p0) + p1) + ...) gives under T's arithmetic.
C9_LeftFold ==
    IsDot(form) =>
        /\ (pc = "dot_loop") =>
               /\ Len(v) = i
               /\ \A k \in 1..Len(v) : v[k] = TProd(Deref(a), Deref(b), k)
        /\ (pc = "dot_sum") =>
               /\ Len(v) = MinLen(Deref(a), Deref(b))
               /\ \A k \in 1..Len(v) : v[k] = TProd(Deref(a), Deref(b), k)
               /\ FoldLeft(SubSeq(v, 1, j)) = [ok |-> TRUE, val |-> acc]
        /\ (Terminal /\ arith # "trap") =>
               res = FoldRes([k \in 1..MinLen(ArgA(form), ArgB(form)) |->
                                 TProd(ArgA(form), ArgB(form), k)])
        /\ (Terminal /\ arith = "trap") =>
               res = IF \A k \in 1..MinLen(ArgA(form), ArgB(form)) :
                            InRange(ExactProd(ArgA(form), ArgB(form), k), bits)
                     THEN FoldRes([k \in 1..MinLen(ArgA(form), ArgB(form)) |->
                                      ExactProd(ArgA(form), ArgB(form), k)])
                     ELSE PanicRes("overflow")

C9_Witness ==
    /\ pc = "done" /\ form = "dot_xy" /\ arith = "sat"
    /\ x = <<TMax(bits), 1, 1>> /\ y = <<1, 1, -2>>
    /\ res.num = TMax(bits) - 2

\* C10: with the operands swapped both functions give the same result,
\* also for operands of unequal lengths.
C10_Symmetric ==
    (Terminal /\ out[Swapped(form)].st # "none") =>
        res = out[Swapped(form)]

C10_Witness ==
    /\ pc = "done" /\ form = "dot_yx"
    /\ out["dot_xy"].st = "ok"
    /\ Len(x) = 2 /\ Len(y) = 1
    /\ res.num # 0

====
